---- MODULE Spec2Model ----
(***************************************************************************)
(* A model of deconfliction_system.py: the waypoint / mission data model,  *)
(* the spatial and temporal conflict predicates, the all-pairs detector    *)
(* check_mission_conflicts, the query wrapper, the run_tests harness, and  *)
(* a caller that edits the mission objects between checks.                 *)
(*                                                                         *)
(* Times are datetimes in the source; here a time is the number of whole   *)
(* seconds since t0 = datetime(2025, 5, 28, 10, 0), so a timedelta's       *)
(* total_seconds() is an integer difference.  Coordinates are integers.    *)
(***************************************************************************)
EXTENDS Integers, Sequences, FiniteSets

VARIABLES
    primary,    \* the primary Mission object held by the caller
    others,     \* the caller's list of other Mission objects (the schedules)
    status,     \* status returned by the last deconfliction_query ("none" before any)
    conflicts,  \* conflict list returned by the last deconfliction_query
    fresh,      \* TRUE iff status/conflicts were returned for the missions as they are now
    edits,      \* number of caller edits done so far
    pc          \* "caller", or the position inside run_tests: "test1", "test2", "test3"

vars == <<primary, others, status, conflicts, fresh, edits, pc>>

---------------------------------------------------------------------------
(* Bounds of the model *)

MaxEdits == 2
MaxWaypoints == 4
MaxSchedules == 3

---------------------------------------------------------------------------
(* Data structures *)

Waypoint(x, y, z, time) == [x |-> x, y |-> y, z |-> z, time |-> time]

Mission(waypoints, t_start, t_end) ==
    [waypoints |-> waypoints, t_start |-> t_start, t_end |-> t_end]

minutes(n) == 60 * n

generate_sample_data ==
    LET t_start == 0
        t_end   == minutes(10)
        primary_waypoints == <<
            Waypoint(0, 0, 100, t_start),
            Waypoint(50, 50, 100, t_start + minutes(2)),
            Waypoint(100, 100, 100, t_start + minutes(4)),
            Waypoint(150, 150, 100, t_start + minutes(6)) >>
        primary_mission == Mission(primary_waypoints, t_start, t_end)
        sample_schedules == <<
            Mission(<< Waypoint(200, 200, 100, t_start),
                       Waypoint(250, 250, 100, t_start + minutes(3)),
                       Waypoint(300, 300, 100, t_start + minutes(6)) >>,
                    t_start, t_end),
            Mission(<< Waypoint(40, 40, 100, t_start + minutes(1)),
                       Waypoint(50, 50, 100, t_start + minutes(2)),
                       Waypoint(60, 60, 100, t_start + minutes(3)) >>,
                    t_start, t_end) >>
    IN  <<primary_mission, sample_schedules>>

---------------------------------------------------------------------------
(* The conflict predicates *)

safety_buffer_default == 10
time_buffer_default == 30

Abs(n) == IF n < 0 THEN -n ELSE n

squared_distance(wp1, wp2) ==
    (wp1.x - wp2.x) * (wp1.x - wp2.x)
    + (wp1.y - wp2.y) * (wp1.y - wp2.y)
    + (wp1.z - wp2.z) * (wp1.z - wp2.z)

(* np.sqrt(d2) < safety_buffer.  The root is never negative, so the        *)
(* comparison holds exactly when the buffer is positive and d2 is below    *)
(* its square; for integer d2 and an integer buffer the float64 root       *)
(* (correctly rounded) decides the same way.                               *)
sqrt_less_than(d2, safety_buffer) ==
    safety_buffer > 0 /\ d2 < safety_buffer * safety_buffer

sqrt_at_most(d2, safety_buffer) ==
    safety_buffer >= 0 /\ d2 <= safety_buffer * safety_buffer

check_spatial_conflict_le(wp1, wp2, safety_buffer) ==
    sqrt_at_most(squared_distance(wp1, wp2), safety_buffer)

check_spatial_conflict_gt(wp1, wp2, safety_buffer) ==
    ~ sqrt_at_most(squared_distance(wp1, wp2), safety_buffer)

check_spatial_conflict(wp1, wp2, safety_buffer) ==
    LET distance2 == squared_distance(wp1, wp2)
    IN  sqrt_less_than(distance2, safety_buffer)

check_temporal_conflict(t1, t2, time_buffer) ==
    Abs(t1 - t2) < time_buffer

---------------------------------------------------------------------------
(* The detector *)

ConflictRecord_primary_location(i, wp1, wp2) ==
    [drone_id |-> i, location |-> <<wp1.x, wp1.y, wp1.z>>,
     time |-> wp2.time, primary_time |-> wp1.time]

(* the dictionary appended for a violating pair; i is the 0-based index *)
ConflictRecord(i, wp1, wp2) ==
    [drone_id |-> i, location |-> <<wp2.x, wp2.y, wp2.z>>,
     time |-> wp2.time, primary_time |-> wp1.time]

conflicts_carried == conflicts

(* conflicts = [] at the start of every call *)
conflicts_init == << >>

both_predicates(wp1, wp2) ==
    IF check_spatial_conflict(wp1, wp2, safety_buffer_default)
    THEN check_temporal_conflict(wp1.time, wp2.time, time_buffer_default)
    ELSE FALSE

RECURSIVE loop_wp2_break(_, _, _, _, _)
loop_wp2_break(i, wp1, schedule, w, acc) ==
    IF w > Len(schedule.waypoints) THEN acc
    ELSE LET wp2 == schedule.waypoints[w]
         IN  IF both_predicates(wp1, wp2)
             THEN Append(acc, ConflictRecord(i, wp1, wp2))
             ELSE loop_wp2_break(i, wp1, schedule, w + 1, acc)

(* for wp2 in schedule.waypoints, from position w on *)
RECURSIVE loop_wp2(_, _, _, _, _)
loop_wp2(i, wp1, schedule, w, acc) ==
    IF w > Len(schedule.waypoints) THEN acc
    ELSE LET wp2 == schedule.waypoints[w]
         IN  loop_wp2(i, wp1, schedule, w + 1,
                      IF both_predicates(wp1, wp2)
                      THEN Append(acc, ConflictRecord(i, wp1, wp2))
                      ELSE acc)

(* for wp1 in primary_mission.waypoints, from position p on *)
RECURSIVE loop_wp1(_, _, _, _, _)
loop_wp1(i, primary_mission, schedule, p, acc) ==
    IF p > Len(primary_mission.waypoints) THEN acc
    ELSE loop_wp1(i, primary_mission, schedule, p + 1,
                  loop_wp2(i, primary_mission.waypoints[p], schedule, 1, acc))

(* for i, schedule in enumerate(schedules), from position s on (i = s - 1) *)
RECURSIVE loop_schedules(_, _, _, _)
loop_schedules(primary_mission, schedules, s, acc) ==
    IF s > Len(schedules) THEN acc
    ELSE loop_schedules(primary_mission, schedules, s + 1,
                        loop_wp1(s - 1, primary_mission, schedules[s], 1, acc))

status_of_inverted(found) == IF found # << >> THEN "clear" ELSE "conflict detected"

status_of(found) == IF found = << >> THEN "clear" ELSE "conflict detected"

(* two faulty variants of check_mission_conflicts: the primary waypoints   *)
(* in the outer loop, and a validity-window filter on both waypoints       *)
RECURSIVE loop_schedules_inner(_, _, _, _)
loop_schedules_inner(wp1, schedules, s, acc) ==
    IF s > Len(schedules) THEN acc
    ELSE loop_schedules_inner(wp1, schedules, s + 1,
                              loop_wp2(s - 1, wp1, schedules[s], 1, acc))

RECURSIVE loop_wp1_outer(_, _, _, _)
loop_wp1_outer(primary_mission, schedules, p, acc) ==
    IF p > Len(primary_mission.waypoints) THEN acc
    ELSE loop_wp1_outer(primary_mission, schedules, p + 1,
            loop_schedules_inner(primary_mission.waypoints[p], schedules, 1, acc))

check_mission_conflicts_primary_outer(primary_mission, schedules) ==
    LET found == loop_wp1_outer(primary_mission, schedules, 1, conflicts_init)
    IN  <<status_of(found), found>>

in_window(mission, wp) == mission.t_start <= wp.time /\ wp.time <= mission.t_end

RECURSIVE loop_windowed(_, _, _, _)
loop_windowed(primary_mission, schedules, s, acc) ==
    IF s > Len(schedules) THEN acc
    ELSE LET kept == SelectSeq(primary_mission.waypoints,
                               LAMBDA wp : in_window(primary_mission, wp))
             sched == [schedules[s] EXCEPT !.waypoints =
                          SelectSeq(@, LAMBDA wp : in_window(schedules[s], wp))]
         IN  loop_windowed(primary_mission, schedules, s + 1,
                loop_wp1(s - 1, [primary_mission EXCEPT !.waypoints = kept], sched, 1, acc))

check_mission_conflicts_windowed(primary_mission, schedules) ==
    LET found == loop_windowed(primary_mission, schedules, 1, conflicts_init)
    IN  <<status_of(found), found>>

check_mission_conflicts(primary_mission, schedules) ==
    LET found == loop_schedules(primary_mission, schedules, 1, conflicts_init)
    IN  <<status_of(found), found>>

(* visualize_mission only reads its arguments and draws; the returned pair *)
(* is that of check_mission_conflicts whatever the flag                    *)
deconfliction_query(primary_mission, schedules, visualize) ==
    check_mission_conflicts(primary_mission, schedules)

---------------------------------------------------------------------------
(* Inputs of the caller *)

(* waypoints placed around the sample primary waypoints 1 and 2 *)
WaypointChoices == {
    Waypoint(56, 58, 100, 120),    \* exactly 10 away from waypoint 1, same instant
    Waypoint(50, 50, 100, 150),    \* on waypoint 1, exactly 30 s later
    Waypoint(50, 53, 104, 149),    \* 5 away from waypoint 1, 29 s later
    Waypoint(100, 100, 109, 211) } \* 9 above waypoint 2, 29 s earlier

WindowChoices == { <<0, 600>>, <<300, 600>> }

(* buffers a caller may want: the defaults, and smaller and larger ones *)
SpatialBufferChoices == {5, 10, 15}
TemporalBufferChoices == {30, 90}

---------------------------------------------------------------------------
(* The state machine *)

Init ==
    /\ primary = generate_sample_data[1]
    /\ others = generate_sample_data[2]
    /\ status = "none"
    /\ conflicts = << >>
    /\ fresh = FALSE
    /\ edits = 0
    /\ pc = "caller"

Returned(result) ==
    /\ status' = result[1]
    /\ conflicts' = result[2]
    /\ fresh' = TRUE

(* A check asked for by the caller, who wants spatial_buffer and           *)
(* temporal_buffer applied.  Neither deconfliction_query nor               *)
(* check_mission_conflicts has a parameter to receive them, and the        *)
(* predicates are called without their buffer argument: the wish never     *)
(* reaches the comparison.                                                 *)
Query(spatial_buffer, temporal_buffer) ==
    /\ pc = "caller"
    /\ \E visualize \in BOOLEAN :
          Returned(deconfliction_query(primary, others, visualize))
    /\ UNCHANGED <<primary, others, edits, pc>>

Edited ==
    /\ edits' = edits + 1
    /\ fresh' = FALSE
    /\ UNCHANGED <<status, conflicts, pc>>

CanEdit == pc = "caller" /\ edits < MaxEdits

ReplaceWaypoint ==
    /\ CanEdit
    /\ \E j \in 1..Len(others) : \E k \in 1..Len(others[j].waypoints) :
       \E wp \in WaypointChoices :
          others' = [others EXCEPT ![j].waypoints[k] = wp]
    /\ UNCHANGED primary
    /\ Edited

AppendWaypoint ==
    /\ CanEdit
    /\ \E j \in 1..Len(others) : \E wp \in WaypointChoices :
          /\ Len(others[j].waypoints) < MaxWaypoints
          /\ others' = [others EXCEPT ![j].waypoints = Append(@, wp)]
    /\ UNCHANGED primary
    /\ Edited

NewPrimary ==
    /\ CanEdit
    /\ \E win \in WindowChoices : primary' = Mission(<< >>, win[1], win[2])
    /\ UNCHANGED others
    /\ Edited

AppendSchedule ==
    /\ CanEdit
    /\ Len(others) < MaxSchedules
    /\ \E win \in WindowChoices :
          others' = Append(others, Mission(<< >>, win[1], win[2]))
    /\ UNCHANGED primary
    /\ Edited

RemoveSchedule ==
    /\ CanEdit
    /\ others # << >>
    /\ others' = SubSeq(others, 1, Len(others) - 1)
    /\ UNCHANGED primary
    /\ Edited

SetWindow ==
    /\ CanEdit
    /\ \E win \in WindowChoices :
          \/ /\ primary' = [primary EXCEPT !.t_start = win[1], !.t_end = win[2]]
             /\ UNCHANGED others
          \/ /\ \E j \in 1..Len(others) :
                   others' = [others EXCEPT ![j].t_start = win[1], ![j].t_end = win[2]]
             /\ UNCHANGED primary
    /\ Edited

(* run_tests: three checks on the sample data, a waypoint of mission 1     *)
(* replaced before the second and before the third.  The program calls it  *)
(* once, after its own query on the unedited sample data.                  *)
RunTest1 ==
    /\ pc = "caller"
    /\ edits = 0
    /\ primary' = generate_sample_data[1]
    /\ others' = generate_sample_data[2]
    /\ Returned(deconfliction_query(primary', others', FALSE))
    /\ pc' = "test1"
    /\ UNCHANGED edits

RunTest2 ==
    /\ pc = "test1"
    /\ others' = [others EXCEPT ![2].waypoints[2] =
                     Waypoint(200, 200, 100, others[2].waypoints[2].time)]
    /\ Returned(deconfliction_query(primary, others', FALSE))
    /\ pc' = "test2"
    /\ UNCHANGED <<primary, edits>>

RunTest3 ==
    /\ pc = "test2"
    /\ others' = [others EXCEPT ![2].waypoints[2] =
                     Waypoint(50, 50, 100, primary.t_start + minutes(10))]
    /\ Returned(deconfliction_query(primary, others', FALSE))
    /\ pc' = "test3"
    /\ UNCHANGED <<primary, edits>>

Next ==
    \/ \E sb \in SpatialBufferChoices : \E tb \in TemporalBufferChoices : Query(sb, tb)
    \/ ReplaceWaypoint
    \/ AppendWaypoint
    \/ NewPrimary
    \/ AppendSchedule
    \/ RemoveSchedule
    \/ SetWindow
    \/ RunTest1
    \/ RunTest2
    \/ RunTest3

Spec == Init /\ [][Next]_vars

---------------------------------------------------------------------------
(* What the claims speak of *)

(* every (other-mission position i, primary position p, waypoint position w) *)
Triples(primary_mission, schedules) ==
    UNION { {i} \X (1..Len(primary_mission.waypoints)) \X (1..Len(schedules[i].waypoints)) :
               i \in 1..Len(schedules) }

PrimaryWp(primary_mission, t) == primary_mission.waypoints[t[2]]
OtherWp(schedules, t) == schedules[t[1]].waypoints[t[3]]

(* the triples whose pair violates both buffers *)
ViolatingTriples(primary_mission, schedules, spatial_buffer, temporal_buffer) ==
    { t \in Triples(primary_mission, schedules) :
         /\ check_spatial_conflict(PrimaryWp(primary_mission, t), OtherWp(schedules, t),
                                   spatial_buffer)
         /\ check_temporal_conflict(PrimaryWp(primary_mission, t).time,
                                    OtherWp(schedules, t).time, temporal_buffer) }

(* the record a triple is to be reported as *)
RecordOf(primary_mission, schedules, t) ==
    LET wp1 == PrimaryWp(primary_mission, t)
        wp2 == OtherWp(schedules, t)
    IN  [drone_id |-> t[1] - 1, location |-> <<wp2.x, wp2.y, wp2.z>>,
         time |-> wp2.time, primary_time |-> wp1.time]

LexLess(t, u) ==
    \/ t[1] < u[1]
    \/ t[1] = u[1] /\ t[2] < u[2]
    \/ t[1] = u[1] /\ t[2] = u[2] /\ t[3] < u[3]

RECURSIVE SortedTriples(_)
SortedTriples(S) ==
    IF S = {} THEN << >>
    ELSE LET m == CHOOSE t \in S : \A u \in S \ {t} : LexLess(t, u)
         IN  <<m>> \o SortedTriples(S \ {m})

(* the records of the violating triples, in encounter order *)
ExpectedList(primary_mission, schedules, spatial_buffer, temporal_buffer) ==
    LET sorted == SortedTriples(ViolatingTriples(primary_mission, schedules,
                                                 spatial_buffer, temporal_buffer))
    IN  [k \in 1..Len(sorted) |-> RecordOf(primary_mission, schedules, sorted[k])]

Occurrences(seq, r) == Cardinality({ k \in 1..Len(seq) : seq[k] = r })

DefaultViolating == ViolatingTriples(primary, others, safety_buffer_default, time_buffer_default)

---------------------------------------------------------------------------
(* C1: the returned list holds exactly one record for each triple (i, p, w)  *)
(* whose waypoints satisfy both predicates, and no other record: as many     *)
(* records as violating triples, each record as often as triples map to it.  *)
C1_ExactlyTheViolatingPairs ==
    fresh =>
        /\ Len(conflicts) = Cardinality(DefaultViolating)
        /\ \A t \in DefaultViolating :
              Occurrences(conflicts, RecordOf(primary, others, t))
                = Cardinality({ u \in DefaultViolating :
                                   RecordOf(primary, others, u) = RecordOf(primary, others, t) })

(* two violating pairs of one primary waypoint with one other mission, after a check *)
C1_Witness ==
    /\ fresh
    /\ \E t \in DefaultViolating : \E u \in DefaultViolating :
          t[1] = u[1] /\ t[2] = u[2] /\ t[3] < u[3]

(* C2: the status is "clear" exactly when the returned list is empty, and  *)
(* "conflict detected" otherwise; no other status is returned.             *)
C2_StatusMatchesList ==
    status # "none" =>
        /\ status \in {"clear", "conflict detected"}
        /\ status = "clear" <=> conflicts = << >>
        /\ status = "conflict detected" <=> conflicts # << >>

(* a check that found conflicts, after the caller edited the missions *)
C2_Witness == fresh /\ status = "conflict detected" /\ Len(conflicts) >= 1 /\ edits > 0

(* C3: a pair at distance exactly the spatial buffer, or exactly the       *)
(* temporal buffer apart in time, is not a conflict, whatever the other    *)
(* predicate says; the records number the pairs strictly inside both.      *)
C3_StrictInequality ==
    fresh =>
        /\ \A t \in Triples(primary, others) :
              LET wp1 == PrimaryWp(primary, t)
                  wp2 == OtherWp(others, t)
              IN  \/ squared_distance(wp1, wp2) = 10 * 10
                  \/ Abs(wp1.time - wp2.time) = 30
                  => /\ ~ both_predicates(wp1, wp2)
                     /\ t \notin DefaultViolating
        /\ Len(conflicts) =
              Cardinality({ t \in Triples(primary, others) :
                              /\ squared_distance(PrimaryWp(primary, t), OtherWp(others, t)) < 10 * 10
                              /\ Abs(PrimaryWp(primary, t).time - OtherWp(others, t).time) < 30 })

(* after a check: a pair at distance 10 with time delta 0, and one at      *)
(* distance 0 with time delta 30                                           *)
C3_Witness ==
    /\ fresh
    /\ \E t \in Triples(primary, others) :
          /\ squared_distance(PrimaryWp(primary, t), OtherWp(others, t)) = 100
          /\ PrimaryWp(primary, t).time = OtherWp(others, t).time
    /\ \E t \in Triples(primary, others) :
          /\ squared_distance(PrimaryWp(primary, t), OtherWp(others, t)) = 0
          /\ Abs(PrimaryWp(primary, t).time - OtherWp(others, t).time) = 30

(* C4: the detector compares every pair against the buffers the caller     *)
(* supplies: whatever spatial_buffer and temporal_buffer the call is given,*)
(* the returned list is the list of the pairs violating those buffers.     *)
C4_SuppliedBuffersDecide ==
    [][ \A sb \in SpatialBufferChoices : \A tb \in TemporalBufferChoices :
           Query(sb, tb) => conflicts' = ExpectedList(primary', others', sb, tb) ]_vars

(* C5: enlarging a buffer never removes a conflict: each predicate that    *)
(* holds under a buffer holds under every larger one, and the violating    *)
(* pairs under smaller buffers are among those under larger buffers.       *)
C5_MonotonicBuffers ==
    \A t \in Triples(primary, others) :
        LET wp1 == PrimaryWp(primary, t)
            wp2 == OtherWp(others, t)
        IN  /\ \A b1 \in SpatialBufferChoices : \A b2 \in SpatialBufferChoices :
                  b1 <= b2 /\ check_spatial_conflict(wp1, wp2, b1)
                     => check_spatial_conflict(wp1, wp2, b2)
            /\ \A b1 \in TemporalBufferChoices : \A b2 \in TemporalBufferChoices :
                  b1 <= b2 /\ check_temporal_conflict(wp1.time, wp2.time, b1)
                     => check_temporal_conflict(wp1.time, wp2.time, b2)
            /\ t \in DefaultViolating
                  => /\ check_spatial_conflict(wp1, wp2, 15)
                     /\ check_temporal_conflict(wp1.time, wp2.time, 90)

(* larger buffers strictly add to a non-empty set of violating pairs *)
C5_Witness ==
    /\ DefaultViolating # {}
    /\ DefaultViolating # ViolatingTriples(primary, others, 15, 30)
    /\ DefaultViolating # ViolatingTriples(primary, others, 10, 90)
    /\ edits > 0

(* C6: the records come in encounter order: by other-mission position,     *)
(* then primary waypoint position, then other waypoint position; so the    *)
(* drone_id values never decrease along the list.                          *)
C6_EncounterOrder ==
    fresh =>
        /\ conflicts = ExpectedList(primary, others, 10, 30)
        /\ \A k \in 1..Len(conflicts) : \A m \in 1..Len(conflicts) :
              k < m => conflicts[k].drone_id <= conflicts[m].drone_id

(* two other missions with one conflicting pair each, the lower-indexed    *)
(* mission's pair on a later primary waypoint                              *)
C6_Witness ==
    /\ fresh
    /\ Len(conflicts) = 2
    /\ conflicts[1].drone_id = 0
    /\ conflicts[2].drone_id = 1
    /\ conflicts[1].primary_time > conflicts[2].primary_time

(* C7: every record describes the pair that produced it: drone_id is the   *)
(* 0-based position of the other mission, location and time are those of  *)
(* that mission's waypoint, primary_time that of the primary waypoint.     *)
C7_RecordDescribesPair ==
    fresh =>
        \A k \in 1..Len(conflicts) :
            /\ conflicts[k].drone_id \in 0..(Len(others) - 1)
            /\ \E t \in DefaultViolating :
                  LET wp1 == PrimaryWp(primary, t)
                      wp2 == OtherWp(others, t)
                  IN  /\ conflicts[k].drone_id = t[1] - 1
                      /\ conflicts[k].location = <<wp2.x, wp2.y, wp2.z>>
                      /\ conflicts[k].time = wp2.time
                      /\ conflicts[k].primary_time = wp1.time

(* a record whose location is no primary waypoint's and whose time differs *)
(* from the primary waypoint's                                             *)
C7_Witness ==
    /\ fresh
    /\ \E k \in 1..Len(conflicts) :
          /\ conflicts[k].time # conflicts[k].primary_time
          /\ \A p \in 1..Len(primary.waypoints) :
                conflicts[k].location #
                   <<primary.waypoints[p].x, primary.waypoints[p].y, primary.waypoints[p].z>>

(* C8: empty inputs are no error: with no other mission, or a primary      *)
(* mission without waypoints, the result is ("clear", []); and an other    *)
(* mission without waypoints contributes no record.                        *)
C8_EmptyInputsClear ==
    fresh =>
        /\ others = << >> \/ primary.waypoints = << >>
              => status = "clear" /\ conflicts = << >>
        /\ \A j \in 1..Len(others) :
              others[j].waypoints = << >>
                 => \A k \in 1..Len(conflicts) : conflicts[k].drone_id # j - 1
        /\ (\A j \in 1..Len(others) : others[j].waypoints = << >>)
              => status = "clear" /\ conflicts = << >>

(* a check of the sample primary mission against no other mission *)
C8_Witness ==
    /\ fresh
    /\ status = "clear"
    /\ others = << >>
    /\ primary.waypoints # << >>

(* C9: no conflict is carried from one check to the next: a check of       *)
(* missions without a violating pair returns ("clear", []) whatever was    *)
(* returned before, and the three checks of run_tests return: one record   *)
(* (drone 1 at (50, 50, 100), t0 + 2 min), then clear, then clear.         *)
C9_NoStateBetweenCalls ==
    /\ fresh /\ DefaultViolating = {} => status = "clear" /\ conflicts = << >>
    /\ pc = "test1" =>
          /\ status = "conflict detected"
          /\ conflicts = << [drone_id |-> 1, location |-> <<50, 50, 100>>,
                             time |-> 120, primary_time |-> 120] >>
    /\ pc = "test2" =>
          /\ status = "clear" /\ conflicts = << >>
          /\ others[2].waypoints[2] = Waypoint(200, 200, 100, 120)
    /\ pc = "test3" =>
          /\ status = "clear" /\ conflicts = << >>
          /\ others[2].waypoints[2] = Waypoint(50, 50, 100, 600)

(* the third check of run_tests, after a first check that found a conflict *)
C9_Witness == pc = "test3" /\ fresh /\ status = "clear"

(* C10: the validity windows are never consulted: the result is the one    *)
(* the detector gives for the same waypoints with every window set to      *)
(* [0, 0], so inputs that differ only in their windows give one result.    *)
WithoutWindow(mission) == [mission EXCEPT !.t_start = 0, !.t_end = 0]

C10_WindowNeverConsulted ==
    fresh =>
        check_mission_conflicts(WithoutWindow(primary),
                                [j \in 1..Len(others) |-> WithoutWindow(others[j])])
           = <<status, conflicts>>

(* a reported waypoint whose time lies before its mission's window *)
C10_Witness ==
    /\ fresh
    /\ \E k \in 1..Len(conflicts) :
          /\ conflicts[k].time < others[conflicts[k].drone_id + 1].t_start
          /\ conflicts[k].primary_time >= primary.t_start

====
